---- MODULE Spec2Model ----
(***************************************************************************)
(* Model of the Latief Ads generator (src/App.tsx, the App component and   *)
(* its ConfigForm, and generateAdImage of the Gemini service).             *)
(*                                                                         *)
(* The React state of App is the model's state.  Every asynchronous        *)
(* handler invocation is a record holding the values its closure captured  *)
(* and the await it is suspended at; one action is one synchronous stretch *)
(* of a handler between two awaits (React commits the batched state        *)
(* updates of such a stretch together).                                    *)
(*                                                                         *)
(* Not part of the state: template, brandColor, watermark and              *)
(* adCopyLanguage (they only reach the prompt text), and the image-editor  *)
(* modal's isEditingImage / imageToEdit (the product file enters through   *)
(* handleImageEditorSave).                                                 *)
(***************************************************************************)
EXTENDS Integers, Sequences, FiniteSets

\* ------------------------------------------------------------------ bounds
\* the batch-size slider (1..6 in the form) is cut to 1..MaxBatch, and the
\* initial batch size with it
MaxBatch == 2
\* invocations of handleGenerate that may be in progress at once
MaxRuns == 2
\* length of the Result Collections handed to the archive export
MaxResults == 3

\* --------------------------------------------------------------- constants
InitialBatchSize == 4
Null == "null"
AdCopyErrorMessage == "Failed to generate ad copy. Please try again."
TaskErrorFallback == "An unknown error occurred during generation."
SetupErrorFallback == "An unexpected error occurred. Please check the console."

Min(a, b) == IF a < b THEN a ELSE b

\* the ratio checkboxes the modelled user toggles
Ratios == {"1:1", "16:9"}
\* the batch-size slider positions the modelled user picks
BatchSizes == 1..MaxBatch
Slots == 1..MaxRuns
\* the invocations of handleDownloadZip followed side by side
ExportSlots == {1, 2}

VARIABLES fields, ratios, batchSize, productFile, logoFile, autoCopyProduct,
          isLoading, isCopyLoading, results, error, progress, runs,
          template, brandColor, watermark,
          zip        \* the JSZip archive each invocation of handleDownloadZip fills

vars == <<fields, ratios, batchSize, productFile, logoFile, autoCopyProduct,
          isLoading, isCopyLoading, results, error, progress, runs,
          template, brandColor, watermark, zip>>

\* ------------------------------------------------------------ input domains
\* values typed into the headline input (handleFieldChange)
FieldInputs == {<<"headline", "">>, <<"headline", "Buy Now">>}
ProductFiles == {"product.png"}
\* the upload and the file the image editor saves in its place
EditedProductFiles == {"product.png", "edited-product.png"}
LogoFiles == {Null, "logo.png"}
AutoCopyInputs == {"sepatu"}
\* what the image model answers to one generateContent request
Responses == {"image", "noimage", "transport", "quota"}
\* the responses that are a rejection of generateContent, and the text of the
\* error each rejects with
Rejections == {"transport", "quota"}
FailureText == [r \in Rejections |->
                  IF r = "quota" THEN "429 RESOURCE_EXHAUSTED: quota exceeded"
                  ELSE "fetch failed"]
\* what reading a file with FileReader ends in
ReadOutcomes == {"load", "error"}

\* ------------------------------------------------------------ pure helpers
\* handleRatioChange: toggle a ratio, keeping selection order
ToggleRatio(rs, r) ==
    IF \E i \in 1..Len(rs) : rs[i] = r
    THEN SelectSeq(rs, LAMBDA x : x # r)
    ELSE Append(rs, r)

\* the nested loops that fill generationTasks, ratio-major variant
RECURSIVE BuildTasksRatioMajor(_, _)
BuildTasksRatioMajor(n, rs) ==
    IF rs = <<>> THEN <<>>
    ELSE [i \in 1..n |-> [ratio |-> Head(rs)]] \o BuildTasksRatioMajor(n, Tail(rs))

\* the nested loops that fill generationTasks
RECURSIVE BuildTasks(_, _)
BuildTasks(n, rs) ==
    IF n = 0 THEN <<>>
    ELSE [i \in 1..Len(rs) |-> [ratio |-> rs[i]]] \o BuildTasks(n - 1, rs)

\* generateAdImage: the outcome of one call, given the model's response
GenerateAdImage(response) ==
    IF response = "image"
    THEN [threw |-> FALSE, value |-> "data:image/png;base64,AAAA", message |-> ""]
    ELSE [threw |-> FALSE, value |-> Null, message |-> ""]

\* generateAdCopy: a parsed {headline, subheadline, cta} object, or a throw
AdCopyOutcomes ==
    { [threw |-> FALSE,
       value |-> [headline |-> "AI Headline", subheadline |-> "AI Sub", cta |-> "AI CTA"]],
      [threw |-> TRUE,
       value |-> [headline |-> "", subheadline |-> "", cta |-> ""]] }

\* a || b on strings
OrElse(a, b) == IF a # "" THEN a ELSE b

\* the setFields updater of handleGenerateAdCopy
MergeAdCopy(prev, adCopy) ==
    [prev EXCEPT !.headline = OrElse(adCopy.headline, prev.headline),
                 !.subheadline = OrElse(adCopy.subheadline, prev.subheadline),
                 !.cta = OrElse(adCopy.cta, prev.cta)]

\* the setResults updater of handleGenerate, newest-first variant
PrependResult(prev, item) == <<item>> \o prev

\* the setResults updater of handleGenerate
AppendResult(prev, item) == Append(prev, item)

\* the Generate button's disabled flag, without the loading check
isGenerateDisabledNoLoading ==
    productFile = Null \/ fields.headline = "" \/ Len(ratios) = 0

\* the Generate button's disabled flag, without the headline check
isGenerateDisabledNoHeadline ==
    productFile = Null \/ Len(ratios) = 0 \/ isLoading

\* the Generate button's disabled flag
isGenerateDisabled ==
    productFile = Null \/ fields.headline = "" \/ Len(ratios) = 0 \/ isLoading

NoProgress == [current |-> 0, total |-> 0]

\* nothing handed to generateContent yet
NoRequest == [prompt |-> <<>>, parts |-> <<>>]

\* no archive export under way
NoZip == [files |-> {}, pending |-> {}, saved |-> FALSE, results |-> <<>>]

\* what FileReader.readAsDataURL yields for each file, in pieces
FileDataURL ==
    [f \in EditedProductFiles \cup (LogoFiles \ {Null}) |->
        CASE f = "product.png" -> <<"data", ":", "image/png", ";", "base64", ",", "AAAA">>
          [] f = "edited-product.png" ->
                 <<"data", ":", "image/png", ";", "base64", ",", "BBBB">>
          [] f = "logo.png" -> <<"data", ":", "image/jpeg", ";", "base64", ",", "CCCC">>]

\* String.prototype.split(sep)
RECURSIVE Split(_, _)
Split(chars, sep) ==
    IF chars = <<>> THEN << <<>> >>
    ELSE LET rest == Split(Tail(chars), sep)
         IN  IF Head(chars) = sep
             THEN << <<>> >> \o rest
             ELSE << <<Head(chars)>> \o rest[1] >> \o Tail(rest)

\* the InlineData the promise of fileToInlineData resolves with
fileToInlineData(file) ==
    LET result == FileDataURL[file]
    IN  [mimeType |-> Split(Split(result, ";")[1], ":")[2],
         data |-> Split(result, ",")[2]]

\* a payload variable that holds no InlineData (unassigned, or null)
NoInlineData == [mimeType |-> <<>>, data |-> <<>>]

\* the payloads of a generation call, variant that reads the files again
CallPayloadReread(run) ==
    [product |-> fileToInlineData(productFile),
     logo |-> IF logoFile = Null THEN NoInlineData ELSE fileToInlineData(logoFile)]

\* the first two arguments of generateAdImage: the locals of the invocation
CallPayload(run) ==
    [product |-> run.productInlineData, logo |-> run.logoInlineData]

\* Texts are sequences of pieces: the literal segments of a template literal
\* and the interpolated values; pieces that are the empty string vanish in
\* the concatenation.
Concat(pieces) == SelectSeq(pieces, LAMBDA x : x # "")

\* text contains sub (both as pieces)
Contains(text, sub) ==
    \E i \in 0..(Len(text) - Len(sub)) : SubSeq(text, i + 1, i + Len(sub)) = sub

Templates == {"Hero", "Price Tag", "UGC Style", "Minimalist"}
BrandColors == {"#2563EB", "#ff0000"}
AllRatios == {"1:1", "4:5", "9:16", "16:9"}
Discounts == {"", "20"}
Prices == {"", "150000"}

getTemplateDescription(tmpl) ==
    CASE tmpl = "Hero" -> "Create a 'Hero' style ad."
      [] tmpl = "Price Tag" -> "Create a 'Price Tag' style ad."
      [] tmpl = "UGC Style" -> "Create a 'UGC (User-Generated Content)' style ad."
      [] OTHER -> "Create a standard product advertisement."

\* the prompt template literal of generateAdImage
BuildPrompt(logoImage, f, tmpl, ratio, color, mark) ==
    Concat(<<"You are an expert graphic designer [...] 2. **Template:** ",
             getTemplateDescription(tmpl),
             " 3. **Text Elements:** [...] * Headline: \"", f.headline,
             "\" * Subheadline: \"", f.subheadline,
             "\" * Price: \"", f.price,
             "\" * Discount: \"", f.discount, "% OFF",
             "\" * Call to Action (CTA): \"", f.cta,
             "\" 4. **Branding:** * The primary brand color is ", color,
             ". Use this for accents, CTA buttons, text highlights, or graphic elements. ",
             IF logoImage # NoInlineData
             THEN "* Incorporate the provided logo subtly and professionally."
             ELSE "",
             " 5. **Watermark:** ",
             IF mark
             THEN "Add a small, semi-transparent 'LATIEF ADS' watermark in a bottom corner."
             ELSE "No watermark.",
             " **CRITICAL INSTRUCTIONS:** - The final output MUST be a single, complete image in a ",
             ratio, " aspect ratio. [...]">>)

\* the parts array of generateAdImage
BuildParts(productImage, logoImage, prompt) ==
    <<[inlineData |-> productImage], [text |-> prompt]>>
        \o (IF logoImage # NoInlineData THEN <<[inlineData |-> logoImage]>> ELSE <<>>)

\* generateAdImage up to its await of ai.models.generateContent: the contents
\* it hands over
generateAdImageRequest(productImage, logoImage, f, tmpl, ratio, color, mark) ==
    LET prompt == BuildPrompt(logoImage, f, tmpl, ratio, color, mark)
    IN  [prompt |-> prompt, parts |-> BuildParts(productImage, logoImage, prompt)]

\* productReads, logoReads: calls of fileToInlineData made by the invocation;
\* call: the payloads handed to its latest generateAdImage; request: the
\* contents that call handed to ai.models.generateContent
\* useState of fields
InitialFields ==
    [headline |-> "", subheadline |-> "", price |-> "", discount |-> "",
     cta |-> "Beli Sekarang", currency |-> "IDR"]

IdleRun ==
    [pc |-> "idle", productFile |-> Null, logoFile |-> Null, ratios |-> <<>>,
     batchSize |-> 0, tasks |-> <<>>, count |-> 0,
     productInlineData |-> NoInlineData, logoInlineData |-> NoInlineData,
     productReads |-> 0, logoReads |-> 0,
     fields |-> InitialFields, template |-> "Hero", brandColor |-> "#2563EB",
     watermark |-> FALSE, request |-> NoRequest,
     call |-> [product |-> NoInlineData, logo |-> NoInlineData]]

\* the invocation of handleGenerate that a click starts: the lowest free one
FreeSlot(s) ==
    /\ runs[s].pc \in {"idle", "done"}
    /\ \A t \in Slots : t < s => runs[t].pc \notin {"idle", "done"}

Outstanding == {s \in Slots : runs[s].pc = "calling"}

\* ------------------------------------------------------------------- Init
Init ==
    /\ fields = InitialFields
    /\ ratios = <<"1:1">>
    /\ batchSize = Min(InitialBatchSize, MaxBatch)
    /\ productFile = Null
    /\ logoFile = Null
    /\ autoCopyProduct = ""
    /\ isLoading = FALSE
    /\ isCopyLoading = FALSE
    /\ results = <<>>
    /\ error = Null
    /\ progress = NoProgress
    /\ runs = [s \in Slots |-> IdleRun]
    /\ template = "Hero"
    /\ brandColor = "#2563EB"
    /\ watermark = FALSE
    /\ zip = [e \in ExportSlots |-> NoZip]

\* ----------------------------------------------------------- form actions
handleFieldChange(name, value) ==
    /\ fields' = [fields EXCEPT ![name] = value]
    /\ fields' # fields
    /\ UNCHANGED <<ratios, batchSize, productFile, logoFile, autoCopyProduct,
                   isLoading, isCopyLoading, results, error, progress, runs>>
    /\ UNCHANGED <<zip, template, brandColor, watermark>>

handleRatioChange(r) ==
    /\ ratios' = ToggleRatio(ratios, r)
    /\ UNCHANGED <<fields, batchSize, productFile, logoFile, autoCopyProduct,
                   isLoading, isCopyLoading, results, error, progress, runs>>
    /\ UNCHANGED <<zip, template, brandColor, watermark>>

setBatchSize(n) ==
    /\ n # batchSize
    /\ batchSize' = n
    /\ UNCHANGED <<fields, ratios, productFile, logoFile, autoCopyProduct,
                   isLoading, isCopyLoading, results, error, progress, runs>>
    /\ UNCHANGED <<zip, template, brandColor, watermark>>

handleImageEditorSave(f) ==
    /\ f # productFile
    /\ productFile' = f
    /\ UNCHANGED <<fields, ratios, batchSize, logoFile, autoCopyProduct,
                   isLoading, isCopyLoading, results, error, progress, runs>>
    /\ UNCHANGED <<zip, template, brandColor, watermark>>

setTemplate(t) ==
    /\ t # template
    /\ template' = t
    /\ UNCHANGED <<fields, ratios, batchSize, productFile, logoFile, autoCopyProduct,
                   isLoading, isCopyLoading, results, error, progress, runs,
                   brandColor, watermark, zip>>

setBrandColor(c) ==
    /\ c # brandColor
    /\ brandColor' = c
    /\ UNCHANGED <<fields, ratios, batchSize, productFile, logoFile, autoCopyProduct,
                   isLoading, isCopyLoading, results, error, progress, runs,
                   template, watermark, zip>>

setWatermark(w) ==
    /\ w # watermark
    /\ watermark' = w
    /\ UNCHANGED <<fields, ratios, batchSize, productFile, logoFile, autoCopyProduct,
                   isLoading, isCopyLoading, results, error, progress, runs,
                   template, brandColor, zip>>

setLogoFile(f) ==
    /\ f # logoFile
    /\ logoFile' = f
    /\ UNCHANGED <<fields, ratios, batchSize, productFile, autoCopyProduct,
                   isLoading, isCopyLoading, results, error, progress, runs>>
    /\ UNCHANGED <<zip, template, brandColor, watermark>>

setAutoCopyProduct(t) ==
    /\ ~isCopyLoading
    /\ t # autoCopyProduct
    /\ autoCopyProduct' = t
    /\ UNCHANGED <<fields, ratios, batchSize, productFile, logoFile,
                   isLoading, isCopyLoading, results, error, progress, runs>>
    /\ UNCHANGED <<zip, template, brandColor, watermark>>

\* ------------------------------------------------------ handleGenerateAdCopy
\* click on "Buat", variant that raises the batch's loading flag
handleGenerateAdCopyBatchFlag ==
    /\ ~(isCopyLoading \/ autoCopyProduct = "")
    /\ autoCopyProduct # ""
    /\ isCopyLoading' = TRUE
    /\ isLoading' = TRUE
    /\ error' = Null
    /\ UNCHANGED <<fields, ratios, batchSize, productFile, logoFile, autoCopyProduct,
                   results, progress, runs>>
    /\ UNCHANGED <<zip, template, brandColor, watermark>>

\* click on "Buat": the handler up to its await of generateAdCopy
handleGenerateAdCopy ==
    /\ ~(isCopyLoading \/ autoCopyProduct = "")     \* the button's disabled flag
    /\ autoCopyProduct # ""                         \* if (!autoCopyProduct) return
    /\ isCopyLoading' = TRUE
    /\ error' = Null
    /\ UNCHANGED <<fields, ratios, batchSize, productFile, logoFile, autoCopyProduct,
                   isLoading, results, progress, runs>>
    /\ UNCHANGED <<zip, template, brandColor, watermark>>

\* the handler after its await, a catch that reports nothing
AdCopySettledSilent(outcome) ==
    /\ isCopyLoading
    /\ IF outcome.threw
       THEN UNCHANGED <<fields, error>>
       ELSE /\ fields' = MergeAdCopy(fields, outcome.value)
            /\ UNCHANGED error
    /\ isCopyLoading' = FALSE
    /\ UNCHANGED <<ratios, batchSize, productFile, logoFile, autoCopyProduct,
                   isLoading, results, progress, runs>>
    /\ UNCHANGED <<zip, template, brandColor, watermark>>

\* the handler after its await: try body, catch and finally
AdCopySettled(outcome) ==
    /\ isCopyLoading
    /\ IF outcome.threw
       THEN /\ error' = AdCopyErrorMessage
            /\ UNCHANGED fields
       ELSE /\ fields' = MergeAdCopy(fields, outcome.value)
            /\ UNCHANGED error
    /\ isCopyLoading' = FALSE
    /\ UNCHANGED <<ratios, batchSize, productFile, logoFile, autoCopyProduct,
                   isLoading, results, progress, runs>>
    /\ UNCHANGED <<zip, template, brandColor, watermark>>

\* ------------------------------------------------------------ handleGenerate
\* results after setResults([]) at the start of a run, variant that keeps them
KeptResults == results

\* results after setResults([]) at the start of a run
ClearedResults == <<>>

\* error after the start of a run, variant that keeps it
KeptError == error

\* error after setError(null) at the start of a run
ClearedError == Null

\* progress after the finally block, variant that leaves it
KeptProgress == progress

\* progress after the finally block
FinalProgress == NoProgress

\* e.message || fallback
MessageOf(e, fallback) == OrElse(e.message, fallback)

\* line 560: the call of generateAdImage for the next task, with the
\* constants of the invocation's closure, up to its await
RequestOf(run) ==
    generateAdImageRequest(CallPayload(run).product, CallPayload(run).logo,
                           run.fields, run.template, run.tasks[run.count + 1].ratio,
                           run.brandColor, run.watermark)

\* the loop head, variant that reports the tasks completed so far
DispatchCompleted(s, run) ==
    /\ runs' = [runs EXCEPT ![s] = [run EXCEPT !.pc = "calling",
                                               !.count = run.count + 1,
                                               !.call = CallPayload(run),
                                               !.request = RequestOf(run)]]
    /\ progress' = [current |-> run.count, total |-> Len(run.tasks)]

\* the loop head: count++, setProgress, and the call of generateAdImage
Dispatch(s, run) ==
    /\ runs' = [runs EXCEPT ![s] = [run EXCEPT !.pc = "calling",
                                               !.count = run.count + 1,
                                               !.call = CallPayload(run),
                                               !.request = RequestOf(run)]]
    /\ progress' = [current |-> run.count + 1, total |-> Len(run.tasks)]

\* building the tasks from the selection on screen when the reads finish
StartLoopCurrent(s, run) ==
    Dispatch(s, [run EXCEPT !.tasks = BuildTasks(batchSize, ratios)])

\* lines 545-560: build the tasks, then enter the loop
StartLoop(s, run) ==
    Dispatch(s, [run EXCEPT !.tasks = BuildTasks(run.batchSize, run.ratios)])

\* the outer catch after a rejected file read, without the finally block
SetupFailedNoFinally(s) ==
    /\ error' = MessageOf([message |-> ""], SetupErrorFallback)
    /\ UNCHANGED <<isLoading, progress>>
    /\ runs' = [runs EXCEPT ![s].pc = "done"]

\* the outer catch and the finally block after a rejected file read
SetupFailed(s) ==
    /\ error' = MessageOf([message |-> ""], SetupErrorFallback)
    /\ isLoading' = FALSE
    /\ progress' = FinalProgress
    /\ runs' = [runs EXCEPT ![s].pc = "done"]

\* click on Generate: the handler up to its await of fileToInlineData(productFile)
handleGenerate(s) ==
    /\ ~isGenerateDisabled
    /\ ~(productFile = Null \/ Len(ratios) = 0)
    /\ FreeSlot(s)
    /\ isLoading' = TRUE
    /\ results' = ClearedResults
    /\ error' = ClearedError
    /\ runs' = [runs EXCEPT ![s] =
                  [IdleRun EXCEPT !.pc = "readProduct", !.productFile = productFile,
                                  !.logoFile = logoFile, !.ratios = ratios,
                                  !.batchSize = batchSize, !.productReads = 1,
                                  !.fields = fields, !.template = template,
                                  !.brandColor = brandColor, !.watermark = watermark]]
    /\ UNCHANGED <<fields, ratios, batchSize, productFile, logoFile, autoCopyProduct,
                   isCopyLoading, progress>>
    /\ UNCHANGED <<zip, template, brandColor, watermark>>

\* fileToInlineData(productFile) settles
ProductRead(s, outcome) ==
    /\ runs[s].pc = "readProduct"
    /\ IF outcome = "error"
       THEN SetupFailed(s) /\ UNCHANGED results
       ELSE LET read == [runs[s] EXCEPT
                            !.productInlineData = fileToInlineData(runs[s].productFile)]
            IN  IF read.logoFile # Null
                THEN /\ runs' = [runs EXCEPT ![s] = [read EXCEPT !.pc = "readLogo",
                                                                 !.logoReads = 1]]
                     /\ UNCHANGED <<isLoading, results, error, progress>>
                ELSE /\ StartLoop(s, read)
                     /\ UNCHANGED <<isLoading, results, error>>
    /\ UNCHANGED <<fields, ratios, batchSize, productFile, logoFile, autoCopyProduct,
                   isCopyLoading>>
    /\ UNCHANGED <<zip, template, brandColor, watermark>>

\* fileToInlineData(logoFile) settles
LogoRead(s, outcome) ==
    /\ runs[s].pc = "readLogo"
    /\ IF outcome = "error"
       THEN SetupFailed(s) /\ UNCHANGED results
       ELSE /\ StartLoop(s, [runs[s] EXCEPT
                                 !.logoInlineData = fileToInlineData(runs[s].logoFile)])
            /\ UNCHANGED <<isLoading, results, error>>
    /\ UNCHANGED <<fields, ratios, batchSize, productFile, logoFile, autoCopyProduct,
                   isCopyLoading>>
    /\ UNCHANGED <<zip, template, brandColor, watermark>>

\* generateAdImage settles: the rest of the loop body, and the finally block
\* when the loop ends
ImageSettled(s, response) ==
    LET run == runs[s]
        r == GenerateAdImage(response)
        task == run.tasks[run.count]
    IN  /\ run.pc = "calling"
        /\ IF r.threw
           THEN /\ error' = MessageOf(r, TaskErrorFallback)
                /\ isLoading' = FALSE
                /\ progress' = FinalProgress
                /\ runs' = [runs EXCEPT ![s].pc = "done"]
                /\ UNCHANGED results
           ELSE /\ results' = AppendResult(results, [src |-> r.value, ratio |-> task.ratio])
                /\ IF run.count < Len(run.tasks)
                   THEN /\ runs' = [runs EXCEPT ![s].pc = "pacing"]
                        /\ UNCHANGED <<isLoading, error, progress>>
                   ELSE /\ runs' = [runs EXCEPT ![s].pc = "done"]
                        /\ isLoading' = FALSE
                        /\ progress' = FinalProgress
                        /\ UNCHANGED error
        /\ UNCHANGED <<fields, ratios, batchSize, productFile, logoFile,
                       autoCopyProduct, isCopyLoading>>
        /\ UNCHANGED <<zip, template, brandColor, watermark>>

\* the 1.5 s timer fires: next iteration of the loop
PacingElapsed(s) ==
    /\ runs[s].pc = "pacing"
    /\ Dispatch(s, runs[s])
    /\ UNCHANGED <<fields, ratios, batchSize, productFile, logoFile, autoCopyProduct,
                   isLoading, isCopyLoading, results, error>>
    /\ UNCHANGED <<zip, template, brandColor, watermark>>

\* ------------------------------------------------------------ specification
Next ==
    \/ \E in \in FieldInputs : handleFieldChange(in[1], in[2])
    \/ \E r \in Ratios : handleRatioChange(r)
    \/ \E n \in BatchSizes : setBatchSize(n)
    \/ \E f \in ProductFiles : handleImageEditorSave(f)
    \/ \E f \in LogoFiles : setLogoFile(f)
    \/ \E t \in AutoCopyInputs : setAutoCopyProduct(t)
    \/ handleGenerateAdCopy
    \/ \E o \in AdCopyOutcomes : AdCopySettled(o)
    \/ \E s \in Slots : handleGenerate(s)
    \/ \E s \in Slots, o \in ReadOutcomes : ProductRead(s, o)
    \/ \E s \in Slots, o \in ReadOutcomes : LogoRead(s, o)
    \/ \E s \in Slots, r \in Responses : ImageSettled(s, r)
    \/ \E s \in Slots : PacingElapsed(s)

Spec == Init /\ [][Next]_vars

\* ------------------------------------------------------- shared vocabulary
Failures == {"noimage", "transport", "quota"}
Active(run) == run.pc \notin {"idle", "done"}
Total(run) == run.batchSize * Len(run.ratios)
AllImages(rs) == \A j \in 1..Len(rs) : rs[j].src # Null
InputsInvalid == productFile = Null \/ Len(ratios) = 0 \/ fields.headline = ""

\* ---------------------------------------------------------------- claims
\* C1: if the call for task k fails (transport error or a response without an
\* image), the run ends at that step with exactly k-1 results and a non-empty
\* error description, and no later task is dispatched.
C1_FailedTaskEndsRun ==
    [][\A s \in Slots, r \in Failures :
          ImageSettled(s, r) =>
              /\ runs'[s].pc = "done"
              /\ Len(results') = runs[s].count - 1
              /\ error' # Null]_vars

\* C2: a run builds exactly batchSize * |R| tasks, and task i (0-indexed)
\* targets ratio R[i mod |R|], R and batchSize being those of the click.
C2_TaskSequence ==
    \A s \in Slots :
        runs[s].tasks # <<>> =>
            /\ Len(runs[s].tasks) = runs[s].batchSize * Len(runs[s].ratios)
            /\ \A i \in 0..(Len(runs[s].tasks) - 1) :
                   runs[s].tasks[i + 1].ratio
                       = runs[s].ratios[(i % Len(runs[s].ratios)) + 1]

C2_Witness ==
    \E s \in Slots :
        /\ runs[s].batchSize = 2
        /\ runs[s].ratios = <<"1:1", "16:9">>
        /\ runs[s].tasks = <<[ratio |-> "1:1"], [ratio |-> "16:9"],
                             [ratio |-> "1:1"], [ratio |-> "16:9"]>>

\* C3: when every task of a run has succeeded and the run has ended, the
\* results are batchSize * |R| many, the j-th result has the ratio of the j-th
\* task, and progress is (0,0); while a call is outstanding, every earlier
\* task's result is already in the collection, in dispatch order.
C3_AllSucceed ==
    \A s \in Slots :
        /\ (runs[s].pc = "done" /\ runs[s].tasks # <<>>
              /\ runs[s].count = Len(runs[s].tasks) /\ AllImages(results)) =>
               /\ Len(results) = Total(runs[s])
               /\ \A j \in 1..Len(results) : results[j].ratio = runs[s].tasks[j].ratio
               /\ progress = NoProgress
        /\ runs[s].pc = "calling" =>
               /\ Len(results) = runs[s].count - 1
               /\ \A j \in 1..Len(results) : results[j].ratio = runs[s].tasks[j].ratio

C3_Witness ==
    \E s \in Slots :
        /\ runs[s].pc = "done"
        /\ runs[s].ratios = <<"1:1", "16:9">>
        /\ runs[s].batchSize = 2
        /\ Len(results) = 4
        /\ AllImages(results)
        /\ ~isLoading

\* C4: at most one generateAdImage call is outstanding, and at most one
\* invocation of handleGenerate is in progress.
C4_OneCallInFlight ==
    /\ Cardinality(Outstanding) <= 1
    /\ Cardinality({s \in Slots : Active(runs[s])}) <= 1

\* a call is outstanding while the form would otherwise allow a click
C4_Witness ==
    /\ Cardinality(Outstanding) = 1
    /\ ~InputsInvalid
    /\ isLoading
    /\ isCopyLoading

\* C5: the Result Collection never holds more entries than the total task
\* count of the run that produced them (and none before the first run).
C5_ResultsWithinTotal ==
    /\ (\A s \in Slots : runs[s].pc = "idle") => results = <<>>
    /\ \A s \in Slots :
           runs[s].pc # "idle" => Len(results) <= Total(runs[s])

\* a finished run whose results fill its task count exactly
C5_Witness ==
    \E s \in Slots :
        /\ runs[s].pc = "done"
        /\ Total(runs[s]) = 1
        /\ Len(results) = 1
        /\ batchSize = 1

\* C6: the step that starts a run empties the Result Collection and clears
\* the error description; when the run's first call is issued the collection
\* is still empty and no error of a batch run is shown.
C6_StartClears ==
    [][\A s \in Slots :
          /\ (~Active(runs[s]) /\ Active(runs'[s])) =>
                 (results' = <<>> /\ error' = Null)
          /\ (runs'[s].pc = "calling" /\ runs'[s].count = 1) =>
                 (results' = <<>> /\ error' \in {Null, AdCopyErrorMessage})]_vars

C6_Witness ==
    \E s \in Slots :
        /\ runs[s].pc = "calling"
        /\ runs[s].count = 1
        /\ results = <<>>
        /\ error = Null

\* the step in which run s ends with every task succeeded
Completes(s) ==
    /\ runs[s].pc = "calling"
    /\ runs'[s].pc = "done"
    /\ Len(results') = Len(runs[s].tasks)
    /\ AllImages(results')

\* C7: when a run ends Completed (every task succeeded) and the loading flag
\* is cleared, no error description is set, whatever the ad-copy handler did
\* while the run was Running.
C7_CompletedNoError ==
    [][\A s \in Slots : Completes(s) => error' = Null]_vars

\* C8: while a run is Running progress.current never decreases, and the step
\* that ends the run (Completed or Failed) sets progress to (0,0).
C8_ProgressMonotone ==
    [][/\ (isLoading /\ isLoading') => progress'.current >= progress.current
       /\ (isLoading /\ ~isLoading') => progress' = NoProgress]_vars

C8_Witness ==
    /\ isLoading
    /\ progress.current = 3
    /\ progress.total = 4

\* C9: while the product image is absent, the ratio selection empty or the
\* headline empty, no run starts: no invocation becomes active, the loading
\* flag stays clear, the results stay, and the error description is changed
\* by nothing but the ad-copy handler.
C9_NoRunOnInvalidInput ==
    [][InputsInvalid =>
          /\ \A s \in Slots : ~Active(runs[s]) => ~Active(runs'[s])
          /\ ~isLoading =>
                 /\ ~isLoading'
                 /\ results' = results
                 /\ (error' # error => isCopyLoading' # isCopyLoading)]_vars

\* only the empty headline keeps the button disabled
C9_Witness ==
    /\ productFile # Null
    /\ Len(ratios) > 0
    /\ fields.headline = ""
    /\ ~isLoading
    /\ results # <<>>

\* C10: the step in which a failed ad-copy request is handled leaves every
\* AdFields value as it was and sets an error description.
C10_FailedCopyKeepsFields ==
    [][(\E o \in AdCopyOutcomes : o.threw /\ AdCopySettled(o)) =>
          (fields' = fields /\ error' # Null)]_vars

C10_Witness ==
    /\ fields.headline = "Buy Now"
    /\ ~isCopyLoading
    /\ error = AdCopyErrorMessage

\* C11: a generateAdImage call whose response has no image part, or whose
\* transport fails, ends in a thrown failure, never in a value returned to
\* the orchestrator.
C11_FailureIsThrown ==
    \A s \in Slots :
        runs[s].pc = "calling" => \A r \in Failures : GenerateAdImage(r).threw

\* C12: when the call of a task rejects, the error description becomes the
\* failure text verbatim, or, for a quota / resource-exhaustion text, a
\* message other than that text.
C12_ErrorClassified ==
    [][\A s \in Slots, r \in Rejections :
          ImageSettled(s, r) =>
              IF r = "quota"
              THEN error' \notin {Null, "", FailureText[r]}
              ELSE error' = FailureText[r]]_vars

\* C16: while the call for task k is outstanding, progress is (k, total) and
\* the Result Collection holds exactly k-1 entries.
C16_ProgressCountsDispatched ==
    \A s \in Slots :
        runs[s].pc = "calling" =>
            /\ progress = [current |-> runs[s].count, total |-> Total(runs[s])]
            /\ Len(results) = runs[s].count - 1

C16_Witness ==
    \E s \in Slots :
        /\ runs[s].pc = "calling"
        /\ runs[s].count = 3
        /\ progress = [current |-> 3, total |-> 4]
        /\ Len(results) = 2

\* C17: after each task but the last the loop waits once before the next
\* call, a call for task k+1 is only issued by the timer of task k, after the
\* last task the run ends without a wait, and after a failed task no wait
\* occurs.
C17_Pacing ==
    [][\A s \in Slots :
          /\ \A r \in Responses \ Failures :
                 ImageSettled(s, r) =>
                     IF runs[s].count < Len(runs[s].tasks)
                     THEN runs'[s].pc = "pacing"
                     ELSE runs'[s].pc = "done" /\ ~isLoading'
          /\ (runs'[s].pc = "calling" /\ runs'[s].count > 1 /\ runs'[s] # runs[s]) =>
                 (runs[s].pc = "pacing" /\ runs'[s].count = runs[s].count + 1)
          /\ \A r \in Failures :
                 ImageSettled(s, r) => runs'[s].pc # "pacing"]_vars

\* C19: when reading the product or the logo file fails, the run ends in that
\* step with no call issued, an empty Result Collection, an error description,
\* the loading flag cleared and progress (0,0).
C19_SetupFailure ==
    [][\A s \in Slots :
          (ProductRead(s, "error") \/ LogoRead(s, "error")) =>
              /\ runs'[s].pc = "done"
              /\ runs'[s].count = 0
              /\ runs'[s].tasks = <<>>
              /\ results' = <<>>
              /\ error' \notin {Null, ""}
              /\ ~isLoading'
              /\ progress' = NoProgress]_vars

\* a run that failed while reading the logo
C19_Witness ==
    \E s \in Slots :
        /\ runs[s].pc = "done"
        /\ runs[s].count = 0
        /\ runs[s].logoFile # Null
        /\ error = SetupErrorFallback
        /\ ~isLoading
        /\ results = <<>>

\* a step of the ad-copy handler
AdCopyStep == handleGenerateAdCopy \/ \E o \in AdCopyOutcomes : AdCopySettled(o)

\* C20 as claimed: a step of the ad-copy handler leaves the results, progress,
\* the batch's loading flag and a failed batch's error description unchanged.
C20_CopyLeavesBatchState ==
    [][AdCopyStep =>
          /\ results' = results
          /\ progress' = progress
          /\ isLoading' = isLoading
          /\ (error \in {SetupErrorFallback, TaskErrorFallback} => error' = error)]_vars

\* C20 amended: a step of the ad-copy handler leaves the results, progress,
\* the batch's loading flag and every invocation of handleGenerate unchanged;
\* the error description is shared with the batch and becomes none (request
\* started) or the ad-copy failure message (request failed), or stays.
C20_CopyLeavesResults ==
    [][AdCopyStep =>
          /\ results' = results
          /\ progress' = progress
          /\ isLoading' = isLoading
          /\ runs' = runs
          /\ error' \in {error, Null, AdCopyErrorMessage}]_vars

\* an ad-copy request failed while a batch with results was Running
C20_Witness ==
    /\ isLoading
    /\ results # <<>>
    /\ progress.current >= 2
    /\ error = AdCopyErrorMessage

\* ---------------------------------------------------------------- fairness
\* the batch run and the form edits that feed it (the ad-copy handler, which
\* shares no await with the run, left out)
BatchNext ==
    \/ \E in \in FieldInputs : handleFieldChange(in[1], in[2])
    \/ \E r \in Ratios : handleRatioChange(r)
    \/ \E n \in BatchSizes : setBatchSize(n)
    \/ \E f \in ProductFiles : handleImageEditorSave(f)
    \/ \E f \in LogoFiles : setLogoFile(f)
    \/ \E s \in Slots : handleGenerate(s)
    \/ \E s \in Slots, o \in ReadOutcomes : ProductRead(s, o)
    \/ \E s \in Slots, o \in ReadOutcomes : LogoRead(s, o)
    \/ \E s \in Slots, r \in Responses : ImageSettled(s, r)
    \/ \E s \in Slots : PacingElapsed(s)

\* every outstanding file read, generation call and pacing timer completes
FairSpec ==
    /\ Init
    /\ [][BatchNext]_vars
    /\ WF_vars(\E s \in Slots, o \in ReadOutcomes : ProductRead(s, o))
    /\ WF_vars(\E s \in Slots, o \in ReadOutcomes : LogoRead(s, o))
    /\ WF_vars(\E s \in Slots, r \in Responses : ImageSettled(s, r))
    /\ WF_vars(\E s \in Slots : PacingElapsed(s))

\* C15: every run that enters Running eventually ends with the loading flag
\* cleared, whichever path it takes.
C15_RunTerminates ==
    \A s \in Slots : Active(runs[s]) ~> (runs[s].pc = "done" /\ ~isLoading)

\* a run of four tasks has ended on the success path
C15_Witness ==
    \E s \in Slots :
        /\ runs[s].pc = "done"
        /\ ~isLoading
        /\ runs[s].count = Len(runs[s].tasks)
        /\ runs[s].count = 4
        /\ AllImages(results)

\* ------------------------------------------------------------ prompt builder
\* values typed into the headline and discount inputs
PromptFieldInputs == FieldInputs \cup {<<"discount", "">>, <<"discount", "20">>}

\* the batch run while the user edits the texts, the template, the brand
\* color, the watermark flag and the logo
PromptNext ==
    \/ \E in \in PromptFieldInputs : handleFieldChange(in[1], in[2])
    \/ \E t \in Templates : setTemplate(t)
    \/ \E c \in BrandColors : setBrandColor(c)
    \/ \E w \in BOOLEAN : setWatermark(w)
    \/ \E f \in ProductFiles : handleImageEditorSave(f)
    \/ \E f \in LogoFiles : setLogoFile(f)
    \/ \E s \in Slots : handleGenerate(s)
    \/ \E s \in Slots, o \in ReadOutcomes : ProductRead(s, o)
    \/ \E s \in Slots, o \in ReadOutcomes : LogoRead(s, o)
    \/ \E s \in Slots, r \in Responses : ImageSettled(s, r)
    \/ \E s \in Slots : PacingElapsed(s)

PromptSpec == Init /\ [][PromptNext]_vars

\* a step in which a run hands a request over: the discount clause of its
\* instruction, against the discount field of the click
C13_RequestOfDispatch ==
    \A s \in Slots :
        runs'[s].count > runs[s].count =>
            /\ runs'[s].fields.discount = "" =>
                   ~Contains(runs'[s].request.prompt, <<"% OFF">>)
            /\ runs'[s].fields.discount = "20" =>
                   Contains(runs'[s].request.prompt, <<"20", "% OFF">>)

\* C13: the instruction of a request has no discount clause (no "% OFF" text)
\* when the discount field is empty, and contains "20% OFF" when it is "20".
C13_DiscountClause == [][C13_RequestOfDispatch]_vars

\* ------------------------------------------------------------ archive export
\* the characters of a ratio string
RatioChars ==
    [r \in AllRatios |->
        CASE r = "1:1" -> <<"1", ":", "1">>
          [] r = "4:5" -> <<"4", ":", "5">>
          [] r = "9:16" -> <<"9", ":", "1", "6">>
          [] r = "16:9" -> <<"1", "6", ":", "9">>]

\* String.prototype.replace(pattern, by) with a string pattern: the first
\* occurrence only
RECURSIVE ReplaceFirst(_, _, _)
ReplaceFirst(chars, pattern, by) ==
    IF chars = <<>> THEN <<>>
    ELSE IF Head(chars) = pattern THEN <<by>> \o Tail(chars)
    ELSE <<Head(chars)>> \o ReplaceFirst(Tail(chars), pattern, by)

DigitChars == <<"0", "1", "2", "3", "4", "5", "6", "7", "8", "9">>

\* the decimal rendering of a number in a template literal
RECURSIVE Digits(_)
Digits(n) ==
    IF n < 10 THEN <<DigitChars[n + 1]>>
    ELSE Digits(n \div 10) \o <<DigitChars[(n % 10) + 1]>>

\* the entry name of handleDownloadZip, without the position
EntryNameNoIndex(result, index) ==
    <<"latief-ads-">> \o ReplaceFirst(RatioChars[result.ratio], ":", "x") \o <<".png">>

\* the entry name of handleDownloadZip (index is 0-based)
EntryName(result, index) ==
    <<"latief-ads-">> \o ReplaceFirst(RatioChars[result.ratio], ":", "x")
        \o <<"-">> \o Digits(index + 1) \o <<".png">>

\* zip.file(name, blob): an entry of that name is replaced
ZipFile(files, name, blob) ==
    {e \in files : e.name # name} \cup {[name |-> name, blob |-> blob]}

\* the invocation of handleDownloadZip that a click starts: the lowest one
\* that has not begun or has saved its archive
FreeExport(e) ==
    /\ zip[e].results = <<>> \/ zip[e].saved
    /\ \A d \in ExportSlots : d < e => ~(zip[d].results = <<>> \/ zip[d].saved)

\* click on a download-all button: the handler up to the awaits of fetch;
\* results is the constant of the handler's closure
handleDownloadZip(e) ==
    /\ ~isLoading /\ Len(results) > 0           \* the buttons are shown / enabled
    /\ ~(Len(results) = 0)                      \* if (results.length === 0) return
    /\ FreeExport(e)
    /\ zip' = [zip EXCEPT ![e] = [files |-> {}, pending |-> 1..Len(results),
                                  saved |-> FALSE, results |-> results]]
    /\ UNCHANGED <<fields, ratios, batchSize, productFile, logoFile, autoCopyProduct,
                   isLoading, isCopyLoading, results, error, progress, runs,
                   template, brandColor, watermark>>

\* fetch and blob of result i (1-based here) of an export settle: zip.file
FetchSettled(e, i) ==
    /\ i \in zip[e].pending
    /\ zip' = [zip EXCEPT ![e].files = ZipFile(zip[e].files,
                                               EntryName(zip[e].results[i], i - 1),
                                               zip[e].results[i].src),
                          ![e].pending = zip[e].pending \ {i}]
    /\ UNCHANGED <<fields, ratios, batchSize, productFile, logoFile, autoCopyProduct,
                   isLoading, isCopyLoading, results, error, progress, runs,
                   template, brandColor, watermark>>

\* Promise.all resolves: generateAsync and saveAs
ZipSaved(e) ==
    /\ zip[e].results # <<>> /\ zip[e].pending = {} /\ ~zip[e].saved
    /\ zip' = [zip EXCEPT ![e].saved = TRUE]
    /\ UNCHANGED <<fields, ratios, batchSize, productFile, logoFile, autoCopyProduct,
                   isLoading, isCopyLoading, results, error, progress, runs,
                   template, brandColor, watermark>>

\* a Result Collection left by earlier runs, up to MaxResults long, with the
\* form ready for a run of one task
ZipInit ==
    /\ \E n \in 0..MaxResults :
          results \in [1..n -> [src : {"data:image/png;base64,AAAA"}, ratio : AllRatios]]
    /\ fields = [headline |-> "Buy Now", subheadline |-> "", price |-> "",
                 discount |-> "", cta |-> "Beli Sekarang", currency |-> "IDR"]
    /\ ratios = <<"1:1">>
    /\ batchSize = 1
    /\ productFile = "product.png"
    /\ logoFile = Null
    /\ autoCopyProduct = ""
    /\ isLoading = FALSE
    /\ isCopyLoading = FALSE
    /\ error = Null
    /\ progress = NoProgress
    /\ runs = [s \in Slots |-> IdleRun]
    /\ template = "Hero"
    /\ brandColor = "#2563EB"
    /\ watermark = FALSE
    /\ zip = [e \in ExportSlots |-> NoZip]

\* the exports, and a batch run that replaces the results meanwhile
ZipNext ==
    \/ \E e \in ExportSlots : handleDownloadZip(e)
    \/ \E e \in ExportSlots : \E i \in zip[e].pending : FetchSettled(e, i)
    \/ \E e \in ExportSlots : ZipSaved(e)
    \/ \E s \in Slots : handleGenerate(s)
    \/ \E s \in Slots, o \in ReadOutcomes : ProductRead(s, o)
    \/ \E s \in Slots, r \in Responses : ImageSettled(s, r)

ZipSpec == ZipInit /\ [][ZipNext]_vars

\* the ratio with its colon replaced by x, spelled out
RatioWithX(r) ==
    CASE r = "1:1" -> <<"1", "x", "1">>
      [] r = "4:5" -> <<"4", "x", "5">>
      [] r = "9:16" -> <<"9", "x", "1", "6">>
      [] r = "16:9" -> <<"1", "6", "x", "9">>

\* C14: a finished export holds exactly one entry per result of the collection
\* it was started on, the entry of result i (1-based) is named
\* latief-ads-<ratio with x>-<i>.png, and the names are pairwise distinct.
C14_ArchiveNames ==
    \A e \in ExportSlots :
        zip[e].saved =>
            /\ Cardinality(zip[e].files) = Len(zip[e].results)
            /\ Cardinality({f.name : f \in zip[e].files}) = Len(zip[e].results)
            /\ \A i \in 1..Len(zip[e].results) :
                   \E f \in zip[e].files :
                       f.name = <<"latief-ads-">> \o RatioWithX(zip[e].results[i].ratio)
                                   \o <<"-", DigitChars[i + 1], ".png">>

\* the export of results with the ratios 1:1, 4:5, 1:1, saved after a new run
\* replaced the results on screen
C14_Witness ==
    \E e \in ExportSlots :
        /\ zip[e].saved
        /\ Len(zip[e].results) = 3
        /\ zip[e].results[1].ratio = "1:1" /\ zip[e].results[2].ratio = "4:5"
        /\ zip[e].results[3].ratio = "1:1"
        /\ Cardinality(zip[e].files) = 3
        /\ results # zip[e].results

\* ------------------------------------------------- files replaced mid-run
\* the batch run while the user edits the product image and changes the logo
FilesNext ==
    \/ \E in \in FieldInputs : handleFieldChange(in[1], in[2])
    \/ \E f \in EditedProductFiles : handleImageEditorSave(f)
    \/ \E f \in LogoFiles : setLogoFile(f)
    \/ \E s \in Slots : handleGenerate(s)
    \/ \E s \in Slots, o \in ReadOutcomes : ProductRead(s, o)
    \/ \E s \in Slots, o \in ReadOutcomes : LogoRead(s, o)
    \/ \E s \in Slots, r \in Responses : ImageSettled(s, r)
    \/ \E s \in Slots : PacingElapsed(s)

FilesSpec == Init /\ [][FilesNext]_vars

\* the mime type and base64 payload of each file, spelled out
ExpectedInlineData(file) ==
    CASE file = Null -> NoInlineData
      [] file = "product.png" -> [mimeType |-> <<"image/png">>, data |-> <<"AAAA">>]
      [] file = "edited-product.png" -> [mimeType |-> <<"image/png">>, data |-> <<"BBBB">>]
      [] file = "logo.png" -> [mimeType |-> <<"image/jpeg">>, data |-> <<"CCCC">>]

\* the reads of a run and the payloads of its latest call
C18_ReadsAndPayloads ==
    \A s \in Slots :
        LET run == runs[s]
        IN  /\ run.pc # "idle" => run.productReads = 1
            /\ run.logoReads <= 1
            /\ run.logoFile = Null => run.logoReads = 0
            /\ run.productInlineData = NoInlineData => run.logoReads = 0
            /\ (run.logoFile # Null /\ run.productInlineData # NoInlineData) =>
                   run.logoReads = 1
            /\ run.count >= 1 =>
                  /\ run.productInlineData = ExpectedInlineData(run.productFile)
                  /\ run.logoInlineData = ExpectedInlineData(run.logoFile)
                  /\ run.call = [product |-> ExpectedInlineData(run.productFile),
                                 logo |-> ExpectedInlineData(run.logoFile)]

\* a later call of a run, against the call before it
C18_SamePayloads ==
    \A s \in Slots :
        (runs[s].count >= 1 /\ runs'[s].count = runs[s].count + 1) =>
            /\ runs'[s].call = runs[s].call
            /\ runs'[s].productReads = runs[s].productReads
            /\ runs'[s].logoReads = runs[s].logoReads

\* a run that has ended has read the logo chosen at its click
C18_LogoReadInEveryRun ==
    \A s \in Slots :
        (runs[s].pc = "done" /\ runs[s].logoFile # Null) => runs[s].logoReads = 1

\* C18 as stated: in each run the product file is read exactly once and the
\* logo file exactly once if a logo is present, both reads complete before the
\* first generation call, and every call gets the same payloads whatever files
\* the user chooses meanwhile.
C18_LogoReadOnceIfPresent ==
    /\ [](C18_ReadsAndPayloads /\ C18_LogoReadInEveryRun)
    /\ [][C18_SamePayloads]_vars

\* C18, amended: a run reads the product file exactly once and the logo file
\* at most once: exactly once if a logo was chosen and the product read
\* succeeded, not at all if the product read is outstanding or rejected; both
\* reads are complete before the first generation call, and every call of the
\* run is handed the payloads of the files chosen at the click, whatever files
\* the user chooses meanwhile.
C18_FilesReadOnce == []C18_ReadsAndPayloads /\ [][C18_SamePayloads]_vars

\* the second call of a run whose product image was edited and whose logo was
\* removed after the click
C18_Witness ==
    \E s \in Slots :
        /\ runs[s].pc = "calling" /\ runs[s].count >= 2
        /\ runs[s].productFile # productFile
        /\ runs[s].logoFile # Null /\ logoFile = Null

\* ------------------------------------------------------ inputs fixed at start
\* the batch run, answered with images, while the user edits the ratio
\* selection, the batch size, the headline, the template, the brand color and
\* the watermark flag
EditsNext ==
    \/ \E in \in FieldInputs : handleFieldChange(in[1], in[2])
    \/ \E r \in Ratios : handleRatioChange(r)
    \/ \E n \in BatchSizes : setBatchSize(n)
    \/ \E t \in Templates : setTemplate(t)
    \/ \E c \in BrandColors : setBrandColor(c)
    \/ \E w \in BOOLEAN : setWatermark(w)
    \/ \E f \in ProductFiles : handleImageEditorSave(f)
    \/ \E s \in Slots : handleGenerate(s)
    \/ \E s \in Slots, o \in ReadOutcomes : ProductRead(s, o)
    \/ \E s \in Slots : ImageSettled(s, "image")
    \/ \E s \in Slots : PacingElapsed(s)

EditsSpec == Init /\ [][EditsNext]_vars

\* the tasks of a run that has dispatched, against the selection at its click
C21_TasksOfClick ==
    \A s \in Slots :
        LET run == runs[s]
        IN  run.count >= 1 =>
                /\ Len(run.tasks) = run.batchSize * Len(run.ratios)
                /\ \A k \in 1..Len(run.tasks) :
                       run.tasks[k].ratio = run.ratios[((k - 1) % Len(run.ratios)) + 1]

\* the step of the click: the run takes the inputs on screen
C21_InputsOfClick ==
    \A s \in Slots :
        (~Active(runs[s]) /\ Active(runs'[s])) =>
            /\ runs'[s].ratios = ratios /\ runs'[s].batchSize = batchSize
            /\ runs'[s].fields = fields /\ runs'[s].template = template
            /\ runs'[s].brandColor = brandColor /\ runs'[s].watermark = watermark

\* a step taken while a run is Running: its inputs and tasks stay, and a
\* dispatch reports the total of the click and hands over a request written
\* from the inputs of the click
C21_RunningFrame ==
    \A s \in Slots :
        Active(runs[s]) =>
            /\ runs'[s].ratios = runs[s].ratios
            /\ runs'[s].batchSize = runs[s].batchSize
            /\ runs'[s].fields = runs[s].fields
            /\ runs'[s].template = runs[s].template
            /\ runs'[s].brandColor = runs[s].brandColor
            /\ runs'[s].watermark = runs[s].watermark
            /\ runs[s].count >= 1 => runs'[s].tasks = runs[s].tasks
            /\ runs'[s].count > runs[s].count =>
                  /\ runs'[s].count = runs[s].count + 1
                  /\ progress'.total = runs[s].batchSize * Len(runs[s].ratios)
                  /\ Contains(runs'[s].request.prompt,
                              <<runs[s].fields.headline, "\" * Subheadline: \"">>)
                  /\ Contains(runs'[s].request.prompt,
                              <<CASE runs[s].template = "Hero" ->
                                         "Create a 'Hero' style ad."
                                  [] runs[s].template = "Price Tag" ->
                                         "Create a 'Price Tag' style ad."
                                  [] runs[s].template = "UGC Style" ->
                                         "Create a 'UGC (User-Generated Content)' style ad."
                                  [] runs[s].template = "Minimalist" ->
                                         "Create a standard product advertisement.">>)
                  /\ Contains(runs'[s].request.prompt,
                              <<runs[s].brandColor,
                                ". Use this for accents, CTA buttons, text highlights, or graphic elements. ">>)
                  /\ Contains(runs'[s].request.prompt,
                              <<IF runs[s].watermark
                                THEN "Add a small, semi-transparent 'LATIEF ADS' watermark in a bottom corner."
                                ELSE "No watermark.">>)

\* C21: the tasks of a run (their number, order and ratios), the total it
\* reports and the ad fields, template, brand color and watermark flag its
\* requests are written from are those on screen at its click; edits of the
\* form while the run is Running change none of them.
C21_InputsFixedAtStart ==
    /\ []C21_TasksOfClick
    /\ [][C21_InputsOfClick /\ C21_RunningFrame]_vars

\* the second dispatch of a run after the user changed the ratio selection,
\* the batch size, the headline, the template, the brand color and the
\* watermark flag
C21_Witness ==
    \E s \in Slots :
        /\ runs[s].pc = "calling" /\ runs[s].count >= 2
        /\ ratios # runs[s].ratios /\ Len(ratios) # Len(runs[s].ratios)
        /\ batchSize # runs[s].batchSize
        /\ fields.headline = "" /\ runs[s].fields.headline = "Buy Now"
        /\ template # runs[s].template
        /\ brandColor # runs[s].brandColor
        /\ watermark # runs[s].watermark
        /\ progress.total = Len(runs[s].tasks)
        /\ progress.total # batchSize * Len(ratios)
        /\ Contains(runs[s].request.prompt, <<runs[s].brandColor>>)
        /\ ~Contains(runs[s].request.prompt, <<brandColor>>)

====
